---- MODULE Spec2Model ----
(***************************************************************************)
(* Reliability core of Ziua4/BUILDING_STEPS: the repair loop               *)
(* (4-validation.py), the intent classifier and router (5-control.py) and  *)
(* the retry policy with its fallbacks (6-recovery.py).                    *)
(*                                                                         *)
(* A backend response is a record [kind, status, content]; a JSON value is *)
(* a record [ty, v, fields] whose scalar payload v is kept as a string     *)
(* token; an exception or a returned model object is an outcome record     *)
(* [kind, cls, msg, fields].                                               *)
(***************************************************************************)
EXTENDS Integers, Sequences, FiniteSets, TLC

VARIABLES
    si_pc,          \* structured_intelligence: "idle", "loop", "returned", "raised"
    si_max_retries, \* its max_retries argument
    si_attempt,     \* the loop variable `attempt` of the iteration to run next
    si_messages,    \* its local list `messages`
    si_log,         \* one entry per requests.post: the messages sent, the response got
    si_out,         \* what the invocation returned or raised
    si_chain,       \* the __cause__ and __context__ of the exception it raised
    gu_pc,          \* get_user_info_with_retry: "idle", "loop", "returned", "raised"
    gu_max_retries, \* its max_retries argument
    gu_attempt,     \* the loop variable `attempt` of the iteration to run next
    gu_messages,    \* its local list `messages`
    gu_trace,       \* its requests.post and time.sleep calls, in the order made
    gu_out,         \* what the invocation returned or raised
    ri_pc,          \* resilient_intelligence: "idle", "primary", "returned", "raised"
    ri_tiers,       \* the fallback tiers it tried, in the order tried
    ri_out,         \* what the invocation returned or raised
    ci_pc,          \* classify_intent: "idle", "call", "returned", "raised"
    ci_input,       \* the user_input of classify_intent and route_based_on_intent
    ci_log,         \* one entry per requests.post of classify_intent
    ci_out,         \* what classify_intent returned or raised
    rt_pc,          \* route_based_on_intent: "idle", "classify", "returned", "raised"
    rt_invoked,     \* the handlers it invoked, in the order invoked
    rt_result,      \* the handler output it returned, or what it raised
    rt_classification, \* the classification it returned with the output
    tl_pc,          \* intelligence_with_tools: "idle", "first", "tools", "returned", "raised"
    tl_messages,    \* its local list `messages`
    tl_tool_calls,  \* assistant_message["tool_calls"] of the first reply
    tl_index,       \* the position in tool_calls of the tool call to run next
    tl_invoked,     \* the names call_function was called with, in the order called
    tl_log,         \* one entry per requests.post: the messages sent, the response got
    tl_out          \* what the invocation returned or raised

si_vars == <<si_pc, si_max_retries, si_attempt, si_messages, si_log, si_out, si_chain>>

gu_vars == <<gu_pc, gu_max_retries, gu_attempt, gu_messages, gu_trace, gu_out>>

ri_vars == <<ri_pc, ri_tiers, ri_out>>

ci_vars == <<ci_pc, ci_input, ci_log, ci_out>>

tl_vars == <<tl_pc, tl_messages, tl_tool_calls, tl_index, tl_invoked, tl_log, tl_out>>

rt_vars == <<rt_pc, rt_invoked, rt_result, rt_classification>>

vars == <<si_vars, gu_vars, ri_vars, ci_vars, rt_vars, tl_vars>>

-----------------------------------------------------------------------------
(* Bounds of the model.                                                    *)

MaxRetries == 3

GU_MaxRetries == 4

MaxToolCalls == 3

-----------------------------------------------------------------------------
(* Python values shared by the three files.                                *)

Field(n, ty, v) == [n |-> n, ty |-> ty, v |-> v]

Scalar(ty, v) == [ty |-> ty, v |-> v, fields |-> {}]

Object(fields) == [ty |-> "object", v |-> "", fields |-> fields]

Return(cls, fields) == [kind |-> "return", cls |-> cls, msg |-> "", fields |-> fields]

Raise(cls, msg) == [kind |-> "raise", cls |-> cls, msg |-> msg, fields |-> {}]

NoOutcome == [kind |-> "none", cls |-> "", msg |-> "", fields |-> {}]

Turn(role, content) == [role |-> role, content |-> content]

Resp(kind, status, content) == [kind |-> kind, status |-> status, content |-> content]

(* The exception classes the three files raise or catch, with their direct *)
(* bases.                                                                  *)
Bases(cls) ==
    CASE cls = "HTTPError" -> {"RequestException"}
      [] cls = "ConnectionError" -> {"RequestException"}
      [] cls = "Timeout" -> {"RequestException"}
      [] cls = "RequestsJSONDecodeError" -> {"RequestException", "JSONDecodeError"}
      [] cls = "RequestException" -> {"OSError"}
      [] cls = "OSError" -> {"Exception"}
      [] cls = "JSONDecodeError" -> {"ValueError"}
      [] cls = "ValidationError" -> {"ValueError"}
      [] cls = "ValueError" -> {"Exception"}
      [] cls = "KeyError" -> {"LookupError"}
      [] cls = "LookupError" -> {"Exception"}
      [] cls = "TypeError" -> {"Exception"}
      [] cls = "UnboundLocalError" -> {"NameError"}
      [] cls = "NameError" -> {"Exception"}
      [] OTHER -> {}

RECURSIVE IsSubclass(_, _)
IsSubclass(cls, base) ==
    cls = base \/ \E b \in Bases(cls) : IsSubclass(b, base)

(* `except (A, B, ...)` catches an exception of class cls.                 *)
Catches(classes, cls) == \E c \in classes : IsSubclass(cls, c)

-----------------------------------------------------------------------------
(* The backend call: requests.post, raise_for_status, response.json().     *)

BackendCall(resp) ==
    CASE resp.kind = "ConnectionError" -> Raise("ConnectionError", "connection refused")
      [] resp.kind = "Timeout" -> Raise("Timeout", "read timed out")
      [] resp.kind = "Status" /\ resp.status >= 400 -> Raise("HTTPError", "error status")
      [] resp.kind = "BadBody" -> Raise("RequestsJSONDecodeError", "Expecting value")
      [] OTHER -> NoOutcome

(* result["message"]["content"]                                            *)
MessageContent(resp) ==
    IF resp.kind = "NoMessage"
    THEN Raise("KeyError", "message")
    ELSE Return("str", {Field("content", "str", resp.content)})

-----------------------------------------------------------------------------
(* json.loads on the texts the backend is made to answer with.             *)

TaskFinish == "{\"task\": \"finish report\", \"completed\": false, \"priority\": 3}"
TaskDone == "{\"task\": \"x\", \"completed\": true, \"priority\": 1}"
TaskQuoted == "{\"task\": \"x\", \"completed\": \"true\", \"priority\": \"3\"}"
TaskOnly == "{\"task\": \"x\"}"
TaskOne == "{\"task\": \"x\", \"completed\": 1, \"priority\": 3}"
TaskWords == "{\"task\": \"x\", \"completed\": false, \"priority\": \"high\"}"
Truncated == "{\"task\": "
JsonList == "[1, 2]"
UserFull == "{\"name\": \"John Doe\", \"email\": \"john@example.com\", \"age\": 30}"
UserNoAge == "{\"name\": \"John Smith\", \"email\": \"john@example.com\"}"
UserNullAge == "{\"name\": \"Ann\", \"email\": \"ann@example.com\", \"age\": null}"
UserNameOnly == "{\"name\": \"John Smith\"}"

Intents == {"question", "request", "complaint"}

(* The intent, confidence and reasoning of the classification texts:       *)
(* "praise" is an intent the schema does not allow.                        *)
IntentTuples ==
    (Intents \cup {"praise"}) \X {"0.95", "1.5"}
        \X {"User is asking for information", "none"}

IntentText(t) ==
    "{\"intent\": \"" \o t[1] \o "\", \"confidence\": " \o t[2]
        \o ", \"reasoning\": \"" \o t[3] \o "\"}"

IntentTexts == {IntentText(t) : t \in IntentTuples}

IntentFields(t) ==
    {Field("intent", "str", t[1]), Field("confidence", "float", t[2]),
     Field("reasoning", "str", t[3])}

JsonLoads(text) ==
    CASE text \in IntentTexts ->
           Object(IntentFields(CHOOSE t \in IntentTuples : IntentText(t) = text))
      [] text = TaskFinish ->
           Object({Field("task", "str", "finish report"),
                   Field("completed", "bool", "false"),
                   Field("priority", "int", "3")})
      [] text = TaskDone ->
           Object({Field("task", "str", "x"),
                   Field("completed", "bool", "true"),
                   Field("priority", "int", "1")})
      [] text = TaskQuoted ->
           Object({Field("task", "str", "x"),
                   Field("completed", "str", "true"),
                   Field("priority", "str", "3")})
      [] text = TaskOne ->
           Object({Field("task", "str", "x"),
                   Field("completed", "int", "1"),
                   Field("priority", "int", "3")})
      [] text = TaskOnly ->
           Object({Field("task", "str", "x")})
      [] text = TaskWords ->
           Object({Field("task", "str", "x"),
                   Field("completed", "bool", "false"),
                   Field("priority", "str", "high")})
      [] text = UserFull ->
           Object({Field("name", "str", "John Doe"),
                   Field("email", "str", "john@example.com"),
                   Field("age", "int", "30")})
      [] text = UserNoAge ->
           Object({Field("name", "str", "John Smith"),
                   Field("email", "str", "john@example.com")})
      [] text = UserNullAge ->
           Object({Field("name", "str", "Ann"),
                   Field("email", "str", "ann@example.com"),
                   Field("age", "null", "None")})
      [] text = UserNameOnly ->
           Object({Field("name", "str", "John Smith")})
      [] text = JsonList -> Scalar("list", "[1, 2]")
      [] OTHER -> Scalar("JSONDecodeError", "Expecting value")

-----------------------------------------------------------------------------
(* pydantic.BaseModel: construction of a model object from decoded data.   *)

SchemaField(n, ty, required, allowed) ==
    [n |-> n, ty |-> ty, required |-> required, allowed |-> allowed]

IntLooking == {"0", "1", "3", "30"}
FloatLooking == IntLooking \cup {"0.95", "0.5", "1.5", "-0.2"}
TrueStrings == {"1", "on", "t", "true", "y", "yes"}
FalseStrings == {"0", "off", "f", "false", "n", "no"}

(* One field value against its declared type, in pydantic's default (lax)  *)
(* mode: [ok, ty, v].                                                      *)
Coerce(decl, f) ==
    LET yes(ty, v) == [ok |-> TRUE, ty |-> ty, v |-> v]
        no == [ok |-> FALSE, ty |-> f.ty, v |-> f.v]
    IN  CASE f.ty = "null" ->
               IF decl.required THEN no ELSE yes("null", "None")
          [] decl.ty = "str" /\ f.ty = "str" -> yes("str", f.v)
          [] decl.ty = "int" /\ f.ty = "int" -> yes("int", f.v)
          [] decl.ty = "int" /\ f.ty = "str" /\ f.v \in IntLooking -> yes("int", f.v)
          [] decl.ty = "int" /\ f.ty = "bool" ->
               yes("int", IF f.v = "true" THEN "1" ELSE "0")
          [] decl.ty = "bool" /\ f.ty = "bool" -> yes("bool", f.v)
          [] decl.ty = "bool" /\ f.ty = "str" /\ f.v \in TrueStrings -> yes("bool", "true")
          [] decl.ty = "bool" /\ f.ty = "str" /\ f.v \in FalseStrings -> yes("bool", "false")
          [] decl.ty = "bool" /\ f.ty = "int" /\ f.v = "1" -> yes("bool", "true")
          [] decl.ty = "bool" /\ f.ty = "int" /\ f.v = "0" -> yes("bool", "false")
          [] decl.ty = "float" /\ f.ty \in {"float", "int"} -> yes("float", f.v)
          [] decl.ty = "float" /\ f.ty = "str" /\ f.v \in FloatLooking -> yes("float", f.v)
          [] decl.ty = "literal" /\ f.ty = "str" /\ f.v \in decl.allowed -> yes("str", f.v)
          [] OTHER -> no

HasField(fields, n) == \E f \in fields : f.n = n

GetField(fields, n) == CHOOSE f \in fields : f.n = n

(* The violation of one declared field, "" when there is none.             *)
Violation(decl, fields) ==
    IF ~HasField(fields, decl.n)
    THEN IF decl.required THEN " " \o decl.n \o ": Field required" ELSE ""
    ELSE IF Coerce(decl, GetField(fields, decl.n)).ok
         THEN ""
         ELSE " " \o decl.n \o ": Input should be a valid " \o decl.ty

RECURSIVE Violations(_, _, _)
Violations(schema, fields, i) ==
    IF i > Len(schema)
    THEN ""
    ELSE Violation(schema[i], fields) \o Violations(schema, fields, i + 1)

(* The validated field of the model object: coerced, or the default None.  *)
Validated(decl, fields) ==
    IF HasField(fields, decl.n)
    THEN LET c == Coerce(decl, GetField(fields, decl.n)) IN Field(decl.n, c.ty, c.v)
    ELSE Field(decl.n, "null", "None")

(* The constructor call: a non-mapping cannot be unpacked (TypeError); fields that  *)
(* the schema does not declare are ignored.                                *)
Construct(cls, schema, data) ==
    IF data.ty # "object"
    THEN Raise("TypeError", "argument after ** must be a mapping")
    ELSE IF Violations(schema, data.fields, 1) # ""
         THEN Raise("ValidationError",
                    "validation errors for " \o cls \o Violations(schema, data.fields, 1))
         ELSE Return(cls, {Validated(schema[i], data.fields) : i \in 1..Len(schema)})

TaskResult ==
    << SchemaField("task", "str", TRUE, {}),
       SchemaField("completed", "bool", TRUE, {}),
       SchemaField("priority", "int", TRUE, {}) >>

-----------------------------------------------------------------------------
(* 4-validation.py: structured_intelligence.                               *)

SI_SystemPrompt == "Extract task information from the user input."

SI_Prompts == {"I need to complete the project presentation by Friday, it's high priority"}

SI_InitialMessages(prompt) ==
    << Turn("system", SI_SystemPrompt), Turn("user", prompt) >>

SI_Responses ==
    {Resp("ConnectionError", 0, ""), Resp("Status", 400, ""), Resp("Status", 500, ""),
     Resp("BadBody", 200, ""), Resp("NoMessage", 200, "")}
    \cup {Resp("Content", 200, t) :
            t \in {TaskFinish, TaskDone, TaskQuoted, TaskOne, TaskOnly, TaskWords, Truncated,
                   JsonList}}

(* The try block: content, json.loads, TaskResult construction.                 *)
SI_TryBlock(resp) ==
    IF MessageContent(resp).kind = "raise"
    THEN MessageContent(resp)
    ELSE LET data == JsonLoads(resp.content)
         IN  IF data.ty = "JSONDecodeError"
             THEN Raise("JSONDecodeError", data.v)
             ELSE Construct("TaskResult", TaskResult, data)

(* A variant that catches the decode error only.                           *)
SI_Caught_DecodeOnly == {"JSONDecodeError"}

SI_Caught == {"JSONDecodeError", "ValidationError"}

(* A variant that appends the corrective turn before the assistant output. *)
SI_Feedback_Reversed(content, e) ==
    << Turn("user", "That output was invalid. Error: " \o e.msg
                    \o ". Please provide valid JSON matching the schema."),
       Turn("assistant", content) >>

SI_Feedback(content, e) ==
    << Turn("assistant", content),
       Turn("user", "That output was invalid. Error: " \o e.msg
                    \o ". Please provide valid JSON matching the schema.") >>

SI_Exhausted ==
    Raise("ValueError", "Failed to get valid structured output after max_retries attempts")

(* A variant that appends the feedback on the last attempt too.            *)
SI_Except_AlwaysAppends(messages, attempt, max_retries, content, e) ==
    IF attempt < max_retries - 1
    THEN [pc |-> "loop", messages |-> messages \o SI_Feedback(content, e), out |-> NoOutcome]
    ELSE [pc |-> "raised", messages |-> messages \o SI_Feedback(content, e),
          out |-> SI_Exhausted]

(* The except clause, for an exception e it catches: what becomes of the   *)
(* messages, and whether the loop goes on or the invocation ends.          *)
SI_Except(messages, attempt, max_retries, content, e) ==
    IF attempt < max_retries - 1
    THEN [pc |-> "loop", messages |-> messages \o SI_Feedback(content, e), out |-> NoOutcome]
    ELSE [pc |-> "raised", messages |-> messages, out |-> SI_Exhausted]

(* A variant that records the assistant output of a valid attempt.         *)
SI_Body_AppendsOnSuccess(messages, attempt, max_retries, resp) ==
    LET call == BackendCall(resp)
        try == SI_TryBlock(resp)
    IN  CASE call.kind = "raise" ->
               [pc |-> "raised", messages |-> messages, out |-> call]
          [] call.kind # "raise" /\ try.kind = "return" ->
               [pc |-> "returned",
                messages |-> Append(messages, Turn("assistant", resp.content)),
                out |-> try]
          [] call.kind # "raise" /\ try.kind = "raise" /\ Catches(SI_Caught, try.cls) ->
               SI_Except(messages, attempt, max_retries, resp.content, try)
          [] OTHER ->
               [pc |-> "raised", messages |-> messages, out |-> try]

(* A variant that handles a failed backend call in the except clause.      *)
SI_Body_RetriesTransport(messages, attempt, max_retries, resp) ==
    LET call == BackendCall(resp)
        try == SI_TryBlock(resp)
    IN  CASE call.kind = "raise" ->
               SI_Except(messages, attempt, max_retries, resp.content, call)
          [] call.kind # "raise" /\ try.kind = "return" ->
               [pc |-> "returned", messages |-> messages, out |-> try]
          [] call.kind # "raise" /\ try.kind = "raise" /\ Catches(SI_Caught, try.cls) ->
               SI_Except(messages, attempt, max_retries, resp.content, try)
          [] OTHER ->
               [pc |-> "raised", messages |-> messages, out |-> try]

(* One iteration of the for loop.                                          *)
SI_Body(messages, attempt, max_retries, resp) ==
    LET call == BackendCall(resp)
        try == SI_TryBlock(resp)
    IN  CASE call.kind = "raise" ->
               [pc |-> "raised", messages |-> messages, out |-> call]
          [] call.kind # "raise" /\ try.kind = "return" ->
               [pc |-> "returned", messages |-> messages, out |-> try]
          [] call.kind # "raise" /\ try.kind = "raise" /\ Catches(SI_Caught, try.cls) ->
               SI_Except(messages, attempt, max_retries, resp.content, try)
          [] OTHER ->
               [pc |-> "raised", messages |-> messages, out |-> try]

(* An exception raised with no `from` clause: no __cause__, and as its     *)
(* __context__ the exception being handled, if one is.                     *)
NoChain == [cause |-> NoOutcome, context |-> NoOutcome]

RaisedWhileHandling(handled) == [cause |-> NoOutcome, context |-> handled]

(* The chain of the exception an iteration ends with: the exhaustion error *)
(* is raised inside the except clause, every other one is not.             *)
SI_Chain(step, resp) ==
    IF step.pc = "raised" /\ BackendCall(resp).kind # "raise"
       /\ SI_TryBlock(resp).kind = "raise" /\ Catches(SI_Caught, SI_TryBlock(resp).cls)
    THEN RaisedWhileHandling(SI_TryBlock(resp))
    ELSE NoChain

SI_Iteration ==
    /\ si_pc = "loop"
    /\ si_attempt < si_max_retries
    /\ \E resp \in SI_Responses :
         LET step == SI_Body(si_messages, si_attempt, si_max_retries, resp)
         IN  /\ si_log' = Append(si_log, [messages |-> si_messages, response |-> resp])
             /\ si_pc' = step.pc
             /\ si_messages' = step.messages
             /\ si_out' = step.out
             /\ si_chain' = SI_Chain(step, resp)
             /\ si_attempt' = IF step.pc = "loop" THEN si_attempt + 1 ELSE si_attempt
    /\ UNCHANGED si_max_retries

SI_Unexpected == Raise("ValueError", "Unexpected error in structured_intelligence")

(* range(max_retries) is used up without a return or a raise: the          *)
(* statement after the loop.                                               *)
SI_AfterLoop ==
    /\ si_pc = "loop"
    /\ si_attempt >= si_max_retries
    /\ si_pc' = "raised"
    /\ si_out' = SI_Unexpected
    /\ si_chain' = NoChain
    /\ UNCHANGED <<si_max_retries, si_attempt, si_messages, si_log>>

SI_Init ==
    /\ si_pc = "loop"
    /\ si_max_retries \in 0..MaxRetries
    /\ si_attempt = 0
    /\ \E p \in SI_Prompts : si_messages = SI_InitialMessages(p)
    /\ si_log = <<>>
    /\ si_out = NoOutcome
    /\ si_chain = NoChain

SI_Idle ==
    /\ si_pc = "idle"
    /\ si_max_retries = 0
    /\ si_attempt = 0
    /\ si_messages = <<>>
    /\ si_log = <<>>
    /\ si_out = NoOutcome
    /\ si_chain = NoChain

-----------------------------------------------------------------------------
(* 6-recovery.py: get_user_info_with_retry.                                *)

UserInfo ==
    << SchemaField("name", "str", TRUE, {}),
       SchemaField("email", "str", TRUE, {}),
       SchemaField("age", "int", FALSE, {}) >>

GU_SystemPrompt == "Extract user information from the text."

GU_Prompts == {"My name is John Smith and my email is john@example.com"}

GU_InitialMessages(prompt) ==
    << Turn("system", GU_SystemPrompt), Turn("user", prompt) >>

GU_Responses ==
    {Resp("ConnectionError", 0, ""), Resp("Timeout", 0, ""), Resp("Status", 400, ""),
     Resp("Status", 401, ""), Resp("Status", 503, ""), Resp("BadBody", 200, ""),
     Resp("NoMessage", 200, "")}
    \cup {Resp("Content", 200, t) :
            t \in {UserFull, UserNoAge, UserNullAge, UserNameOnly, Truncated, JsonList}}

(* The try block: the backend call, content, json.loads, UserInfo.         *)
GU_TryBlock(resp) ==
    IF BackendCall(resp).kind = "raise"
    THEN BackendCall(resp)
    ELSE IF MessageContent(resp).kind = "raise"
         THEN MessageContent(resp)
         ELSE LET data == JsonLoads(resp.content)
              IN  IF data.ty = "JSONDecodeError"
                  THEN Raise("JSONDecodeError", data.v)
                  ELSE Construct("UserInfo", UserInfo, data)

(* A variant that lets request failures through.                           *)
GU_Caught_NoRequest == {"JSONDecodeError", "ValidationError"}

GU_Caught == {"RequestException", "JSONDecodeError", "ValidationError"}

(* A variant with a linear backoff.                                        *)
GU_WaitTime_Linear(attempt) == 2 * attempt

GU_WaitTime(attempt) == 2 ^ attempt

GU_Exhausted(e) == Raise("Exception", "Failed after max_retries attempts: " \o e.msg)

(* What the payload and the call carry besides the messages.               *)
GU_Options ==
    [model |-> "llama3.2", stream |-> "False", format |-> "json", temperature |-> "0.0",
     timeout |-> "30"]

GU_NoOptions ==
    [model |-> "", stream |-> "", format |-> "", temperature |-> "", timeout |-> ""]

GU_Post(attempt, messages, resp) ==
    [ev |-> "post", attempt |-> attempt, wait |-> 0, messages |-> messages, response |-> resp,
     options |-> GU_Options]

GU_Sleep(attempt, wait) ==
    [ev |-> "sleep", attempt |-> attempt, wait |-> wait, messages |-> <<>>,
     response |-> Resp("", 0, ""), options |-> GU_NoOptions]

(* A variant whose except clause appends the failed output and a           *)
(* corrective turn, as the repair loop does.                               *)
GU_ExceptMessages_Feedback(messages, content, e) == messages \o SI_Feedback(content, e)

(* The messages after the except clause, which appends nothing.            *)
GU_ExceptMessages(messages, content, e) == messages

(* The except clause, for an exception e it catches: the sleeps it makes,  *)
(* and whether the loop goes on or the invocation ends.                    *)
GU_Except(attempt, max_retries, e) ==
    IF attempt < max_retries - 1
    THEN [pc |-> "loop", sleeps |-> <<GU_Sleep(attempt, GU_WaitTime(attempt))>>,
          out |-> NoOutcome]
    ELSE [pc |-> "raised", sleeps |-> <<>>, out |-> GU_Exhausted(e)]

(* One iteration of the for loop.                                          *)
GU_Body(attempt, max_retries, resp) ==
    LET try == GU_TryBlock(resp)
    IN  CASE try.kind = "return" ->
               [pc |-> "returned", sleeps |-> <<>>, out |-> try]
          [] try.kind = "raise" /\ Catches(GU_Caught, try.cls) ->
               GU_Except(attempt, max_retries, try)
          [] OTHER ->
               [pc |-> "raised", sleeps |-> <<>>, out |-> try]

GU_Iteration ==
    /\ gu_pc = "loop"
    /\ gu_attempt < gu_max_retries
    /\ \E resp \in GU_Responses :
         LET step == GU_Body(gu_attempt, gu_max_retries, resp)
         IN  /\ gu_trace' = Append(gu_trace, GU_Post(gu_attempt, gu_messages, resp))
                              \o step.sleeps
             /\ gu_pc' = step.pc
             /\ gu_out' = step.out
             /\ gu_attempt' = IF step.pc = "loop" THEN gu_attempt + 1 ELSE gu_attempt
             /\ gu_messages' =
                  IF GU_TryBlock(resp).kind = "raise"
                     /\ Catches(GU_Caught, GU_TryBlock(resp).cls)
                  THEN GU_ExceptMessages(gu_messages, resp.content, GU_TryBlock(resp))
                  ELSE gu_messages
    /\ UNCHANGED gu_max_retries

(* range(max_retries) is used up without a return or a raise: the          *)
(* statement after the loop.                                               *)
GU_Unexpected == Raise("Exception", "Unexpected error in get_user_info_with_retry")

GU_AfterLoop ==
    /\ gu_pc = "loop"
    /\ gu_attempt >= gu_max_retries
    /\ gu_pc' = "raised"
    /\ gu_out' = GU_Unexpected
    /\ UNCHANGED <<gu_max_retries, gu_attempt, gu_messages, gu_trace>>

GU_Idle ==
    /\ gu_pc = "idle"
    /\ gu_max_retries = 0
    /\ gu_attempt = 0
    /\ gu_messages = <<>>
    /\ gu_trace = <<>>
    /\ gu_out = NoOutcome

-----------------------------------------------------------------------------
(* 6-recovery.py: resilient_intelligence.                                  *)

RI_DefaultMaxRetries == 3

Str(text) == Return("str", {Field("value", "str", text)})

FieldValue(fields, n) == GetField(fields, n).v

(* A variant without the check for a missing age.                          *)
RI_Primary_NoAgeCheck(primary) ==
    IF primary.kind = "raise"
    THEN primary
    ELSE IF ~HasField(primary.fields, "age")
         THEN Raise("KeyError", "age")
         ELSE Str("User is " \o FieldValue(primary.fields, "age") \o " years old")

(* The body of the outer try, given what get_user_info_with_retry did.     *)
RI_Primary(primary) ==
    IF primary.kind = "raise"
    THEN primary
    ELSE IF ~HasField(primary.fields, "age")
         THEN Raise("KeyError", "age")
         ELSE IF GetField(primary.fields, "age").ty = "null"
              THEN Raise("ValueError", "Age is None")
              ELSE Str("User is " \o FieldValue(primary.fields, "age") \o " years old")

(* The name and email summary; user_data is unbound when the call of       *)
(* get_user_info_with_retry raised.                                        *)
RI_Tier1(primary) ==
    IF primary.kind = "raise"
    THEN Raise("UnboundLocalError", "user_data")
    ELSE IF ~HasField(primary.fields, "name") \/ ~HasField(primary.fields, "email")
         THEN Raise("KeyError", "name or email")
         ELSE Str("User " \o FieldValue(primary.fields, "name")
                  \o " has email " \o FieldValue(primary.fields, "email"))

RI_Tier2 == Str("Unable to extract complete user information")

RI_Tier3 == Str("Service temporarily unavailable. Please try again later.")

(* A variant whose first handler catches every exception.                  *)
RI_FallbackErrors_Broad == {"Exception"}

RI_FallbackErrors == {"KeyError", "TypeError", "ValueError"}

(* A variant whose last handler catches request failures only.             *)
RI_UltimateErrors_Narrow == {"RequestException"}

RI_UltimateErrors == {"Exception"}

(* The try statement as a whole: the result, and the tiers tried.          *)
RI_Outcome(primary) ==
    LET p == RI_Primary(primary)
        t1 == RI_Tier1(primary)
    IN  CASE p.kind = "return" -> [out |-> p, tiers |-> <<>>]
          [] p.kind = "raise" /\ Catches(RI_FallbackErrors, p.cls) ->
               IF t1.kind = "return"
               THEN [out |-> t1, tiers |-> <<1>>]
               ELSE [out |-> RI_Tier2, tiers |-> <<1, 2>>]
          [] p.kind = "raise" /\ ~Catches(RI_FallbackErrors, p.cls)
               /\ Catches(RI_UltimateErrors, p.cls) ->
               [out |-> RI_Tier3, tiers |-> <<3>>]
          [] OTHER -> [out |-> p, tiers |-> <<>>]

RI_Resolve ==
    /\ ri_pc = "primary"
    /\ gu_pc \in {"returned", "raised"}
    /\ ri_pc' = IF RI_Outcome(gu_out).out.kind = "return" THEN "returned" ELSE "raised"
    /\ ri_out' = RI_Outcome(gu_out).out
    /\ ri_tiers' = RI_Outcome(gu_out).tiers

RI_Idle ==
    /\ ri_pc = "idle"
    /\ ri_tiers = <<>>
    /\ ri_out = NoOutcome

(* Either get_user_info_with_retry is called on its own, with any          *)
(* max_retries, or resilient_intelligence calls it with the default.       *)
GU_Init ==
    /\ gu_pc = "loop"
    /\ gu_max_retries \in 0..GU_MaxRetries
    /\ gu_attempt = 0
    /\ \E p \in GU_Prompts : gu_messages = GU_InitialMessages(p)
    /\ gu_trace = <<>>
    /\ gu_out = NoOutcome

RI_Init ==
    /\ ri_pc \in {"idle", "primary"}
    /\ ri_pc = "primary" => gu_max_retries = RI_DefaultMaxRetries
    /\ ri_tiers = <<>>
    /\ ri_out = NoOutcome

-----------------------------------------------------------------------------
(* 5-control.py: classify_intent.                                          *)

IntentClassification ==
    << SchemaField("intent", "literal", TRUE, Intents),
       SchemaField("confidence", "float", TRUE, {}),
       SchemaField("reasoning", "str", TRUE, {}) >>

CI_SystemPrompt ==
    "Classify user input into one of three categories: question, request, or complaint."

CI_Inputs ==
    {"What is machine learning?", "Please schedule a meeting for tomorrow",
     "I'm unhappy with the service quality"}

CI_InitialMessages(user_input) ==
    << Turn("system", CI_SystemPrompt), Turn("user", user_input) >>

CI_Responses ==
    {Resp("ConnectionError", 0, ""), Resp("Status", 500, ""), Resp("BadBody", 200, ""),
     Resp("NoMessage", 200, "")}
    \cup {Resp("Content", 200, t) : t \in IntentTexts \cup {Truncated, JsonList, TaskOnly}}

(* A variant that reports a decode or validation failure as exhaustion.    *)
CI_Outcome_Wrapped(resp) ==
    IF BackendCall(resp).kind = "raise"
    THEN BackendCall(resp)
    ELSE IF MessageContent(resp).kind = "raise"
         THEN MessageContent(resp)
         ELSE LET data == JsonLoads(resp.content)
                  made == Construct("IntentClassification", IntentClassification, data)
              IN  IF data.ty = "JSONDecodeError" \/ made.cls = "ValidationError"
                  THEN SI_Exhausted
                  ELSE made

(* The whole body after the request is built: the backend call, content,   *)
(* json.loads, IntentClassification. Nothing is caught.                    *)
CI_Outcome(resp) ==
    IF BackendCall(resp).kind = "raise"
    THEN BackendCall(resp)
    ELSE IF MessageContent(resp).kind = "raise"
         THEN MessageContent(resp)
         ELSE LET data == JsonLoads(resp.content)
              IN  IF data.ty = "JSONDecodeError"
                  THEN Raise("JSONDecodeError", data.v)
                  ELSE Construct("IntentClassification", IntentClassification, data)

CI_Classify ==
    /\ ci_pc = "call"
    /\ \E resp \in CI_Responses :
         /\ ci_log' = Append(ci_log, [messages |-> CI_InitialMessages(ci_input),
                                      response |-> resp])
         /\ ci_out' = CI_Outcome(resp)
         /\ ci_pc' = IF CI_Outcome(resp).kind = "return" THEN "returned" ELSE "raised"
    /\ UNCHANGED ci_input

CI_Init ==
    /\ ci_pc = "call"
    /\ ci_input \in CI_Inputs
    /\ ci_log = <<>>
    /\ ci_out = NoOutcome

CI_Idle ==
    /\ ci_pc = "idle"
    /\ ci_input = ""
    /\ ci_log = <<>>
    /\ ci_out = NoOutcome

-----------------------------------------------------------------------------
(* 5-control.py: route_based_on_intent and its handlers.                   *)

AQ_Responses ==
    {Resp("ConnectionError", 0, ""), Resp("Status", 500, ""), Resp("NoMessage", 200, ""),
     Resp("Content", 200, "Machine learning is a field of study.")}

answer_question(question, resp) ==
    IF BackendCall(resp).kind = "raise"
    THEN BackendCall(resp)
    ELSE IF resp.kind = "NoMessage"
         THEN Raise("KeyError", "response")
         ELSE Str(resp.content)

process_request(request) == Str("Processing your request: " \o request)

handle_complaint(complaint) ==
    Str("I understand your concern about: " \o complaint \o ". Let me escalate this.")

RT_Default == Str("I'm not sure how to help with that.")

(* A variant with the request and complaint handlers exchanged.            *)
RT_Dispatch_Swapped(intent, user_input, resp) ==
    CASE intent = "question" ->
           [invoked |-> <<"answer_question">>, result |-> answer_question(user_input, resp)]
      [] intent = "request" ->
           [invoked |-> <<"handle_complaint">>, result |-> handle_complaint(user_input)]
      [] intent = "complaint" ->
           [invoked |-> <<"process_request">>, result |-> process_request(user_input)]
      [] OTHER ->
           [invoked |-> <<>>, result |-> Str("I'm not sure how to help with that.")]

(* A variant whose last branch is an else: any other intent is taken for a *)
(* complaint.                                                              *)
RT_Dispatch_ElseComplaint(intent, user_input, resp) ==
    CASE intent = "question" ->
           [invoked |-> <<"answer_question">>, result |-> answer_question(user_input, resp)]
      [] intent = "request" ->
           [invoked |-> <<"process_request">>, result |-> process_request(user_input)]
      [] OTHER ->
           [invoked |-> <<"handle_complaint">>, result |-> handle_complaint(user_input)]

(* The if/elif chain on classification.intent: the handlers invoked and    *)
(* the result bound.                                                       *)
RT_Dispatch(intent, user_input, resp) ==
    CASE intent = "question" ->
           [invoked |-> <<"answer_question">>, result |-> answer_question(user_input, resp)]
      [] intent = "request" ->
           [invoked |-> <<"process_request">>, result |-> process_request(user_input)]
      [] intent = "complaint" ->
           [invoked |-> <<"handle_complaint">>, result |-> handle_complaint(user_input)]
      [] OTHER ->
           [invoked |-> <<>>, result |-> RT_Default]

(* The function after classify_intent has ended: an error of               *)
(* classify_intent or of a handler goes to the caller, otherwise the       *)
(* result is returned with the classification.                             *)
RT_Route ==
    /\ rt_pc = "classify"
    /\ ci_pc \in {"returned", "raised"}
    /\ IF ci_pc = "raised"
       THEN /\ rt_pc' = "raised"
            /\ rt_result' = ci_out
            /\ rt_invoked' = rt_invoked
            /\ rt_classification' = NoOutcome
       ELSE \E resp \in AQ_Responses :
              LET d == RT_Dispatch(FieldValue(ci_out.fields, "intent"), ci_input, resp)
              IN  /\ rt_invoked' = rt_invoked \o d.invoked
                  /\ rt_result' = d.result
                  /\ rt_pc' = IF d.result.kind = "return" THEN "returned" ELSE "raised"
                  /\ rt_classification' =
                       IF d.result.kind = "return" THEN ci_out ELSE NoOutcome

RT_Init ==
    /\ rt_pc \in {"idle", "classify"}
    /\ rt_invoked = <<>>
    /\ rt_result = NoOutcome
    /\ rt_classification = NoOutcome

RT_Idle ==
    /\ rt_pc = "idle"
    /\ rt_invoked = <<>>
    /\ rt_result = NoOutcome
    /\ rt_classification = NoOutcome

(* The dispatch step entered with a classification object that no          *)
(* validation has produced, as when classify_intent is replaced by a stub: *)
(* any intent, the ones outside the schema's set included.                 *)
CI_Stubbed ==
    /\ ci_pc = "returned"
    /\ ci_input \in CI_Inputs
    /\ ci_log = <<>>
    /\ \E t \in IntentTuples : ci_out = Return("IntentClassification", IntentFields(t))

RT_AtDispatch ==
    /\ rt_pc = "classify"
    /\ rt_invoked = <<>>
    /\ rt_result = NoOutcome
    /\ rt_classification = NoOutcome

-----------------------------------------------------------------------------
(* 3-tools.py: get_weather, call_function, intelligence_with_tools.        *)

ParisArgs == "{\"latitude\": 48.85, \"longitude\": 2.35}"
NoArgs == "{}"

(* The weather service answers, cannot be reached, or answers without the  *)
(* current conditions.                                                     *)
Networks == {"up", "down", "nocurrent"}

get_weather(args, net) ==
    IF args # ParisArgs
    THEN Raise("TypeError", "get_weather() missing required positional arguments")
    ELSE CASE net = "down" -> Raise("ConnectionError", "connection refused")
           [] net = "nocurrent" -> Raise("KeyError", "current")
           [] OTHER -> Return("float", {Field("value", "float", "18.3")})

(* A variant that answers an unknown name with a text.                     *)
call_function_Lenient(name, args, net) ==
    IF name = "get_weather"
    THEN get_weather(args, net)
    ELSE Return("str", {Field("value", "str", "Unknown function: " \o name)})

call_function(name, args, net) ==
    IF name = "get_weather"
    THEN get_weather(args, net)
    ELSE Raise("ValueError", "Unknown function: " \o name)

ToolCall(name, args) == [name |-> name, args |-> args]

TL_ToolCalls ==
    {ToolCall("get_weather", ParisArgs), ToolCall("get_weather", NoArgs),
     ToolCall("get_time", NoArgs)}

TL_ToolCallLists == UNION {[1..n -> TL_ToolCalls] : n \in 0..MaxToolCalls}

TL_Prompts == {"What's the weather like in Paris today?"}

TL_Message(role, content, tool_calls) ==
    [role |-> role, content |-> content, tool_calls |-> tool_calls]

TL_Resp(kind, status, content, tool_calls) ==
    [kind |-> kind, status |-> status, content |-> content, tool_calls |-> tool_calls]

TL_FirstResponses ==
    {TL_Resp("ConnectionError", 0, "", <<>>), TL_Resp("Status", 500, "", <<>>),
     TL_Resp("NoMessage", 200, "", <<>>)}
    \cup {TL_Resp("Content", 200, "It is sunny.", <<>>)}
    \cup {TL_Resp("Content", 200, "", calls) : calls \in TL_ToolCallLists \ {<<>>}}

TL_FinalResponses ==
    {TL_Resp("ConnectionError", 0, "", <<>>), TL_Resp("NoMessage", 200, "", <<>>),
     TL_Resp("Content", 200, "It is 18.3 degrees in Paris.", <<>>)}

(* The first backend call and the test for tool calls.                     *)
TL_FirstCall ==
    /\ tl_pc = "first"
    /\ \E resp \in TL_FirstResponses :
         /\ tl_log' = Append(tl_log, [messages |-> tl_messages, response |-> resp])
         /\ CASE BackendCall(resp).kind = "raise" ->
                   /\ tl_pc' = "raised"
                   /\ tl_out' = BackendCall(resp)
                   /\ UNCHANGED <<tl_messages, tl_tool_calls>>
              [] BackendCall(resp).kind # "raise" /\ MessageContent(resp).kind = "raise" ->
                   /\ tl_pc' = "raised"
                   /\ tl_out' = MessageContent(resp)
                   /\ UNCHANGED <<tl_messages, tl_tool_calls>>
              [] OTHER ->
                   /\ tl_messages' =
                        Append(tl_messages,
                               TL_Message("assistant", resp.content, resp.tool_calls))
                   /\ tl_tool_calls' = resp.tool_calls
                   /\ IF resp.tool_calls # <<>>
                      THEN tl_pc' = "tools" /\ tl_out' = tl_out
                      ELSE tl_pc' = "returned" /\ tl_out' = Str(resp.content)
    /\ UNCHANGED <<tl_index, tl_invoked>>

(* One iteration of the loop over the tool calls.                          *)
TL_ToolCall ==
    /\ tl_pc = "tools"
    /\ tl_index <= Len(tl_tool_calls)
    /\ \E net \in Networks :
         LET tool_call == tl_tool_calls[tl_index]
             function_result == call_function(tool_call.name, tool_call.args, net)
         IN  /\ tl_invoked' = Append(tl_invoked, tool_call.name)
             /\ IF function_result.kind = "raise"
                THEN /\ tl_pc' = "raised"
                     /\ tl_out' = function_result
                     /\ UNCHANGED <<tl_messages, tl_index>>
                ELSE /\ tl_messages' =
                          Append(tl_messages,
                                 TL_Message("tool", FieldValue(function_result.fields, "value"),
                                            <<>>))
                     /\ tl_index' = tl_index + 1
                     /\ UNCHANGED <<tl_pc, tl_out>>
    /\ UNCHANGED <<tl_tool_calls, tl_log>>

(* The second backend call, after the loop.                                *)
TL_FinalCall ==
    /\ tl_pc = "tools"
    /\ tl_index > Len(tl_tool_calls)
    /\ \E resp \in TL_FinalResponses :
         /\ tl_log' = Append(tl_log, [messages |-> tl_messages, response |-> resp])
         /\ tl_out' = IF BackendCall(resp).kind = "raise"
                      THEN BackendCall(resp)
                      ELSE IF MessageContent(resp).kind = "raise"
                           THEN MessageContent(resp)
                           ELSE Str(resp.content)
         /\ tl_pc' = IF BackendCall(resp).kind = "raise" \/ MessageContent(resp).kind = "raise"
                     THEN "raised"
                     ELSE "returned"
    /\ UNCHANGED <<tl_messages, tl_tool_calls, tl_index, tl_invoked>>

TL_Init ==
    /\ tl_pc = "first"
    /\ \E p \in TL_Prompts : tl_messages = <<TL_Message("user", p, <<>>)>>
    /\ tl_tool_calls = <<>>
    /\ tl_index = 1
    /\ tl_invoked = <<>>
    /\ tl_log = <<>>
    /\ tl_out = NoOutcome

TL_Idle ==
    /\ tl_pc = "idle"
    /\ tl_messages = <<>>
    /\ tl_tool_calls = <<>>
    /\ tl_index = 1
    /\ tl_invoked = <<>>
    /\ tl_log = <<>>
    /\ tl_out = NoOutcome

-----------------------------------------------------------------------------
(* The specifications: one per entry point.                                *)

InitRepair == SI_Init /\ GU_Idle /\ RI_Idle /\ CI_Idle /\ RT_Idle /\ TL_Idle

NextRepair ==
    \/ SI_Iteration /\ UNCHANGED <<gu_vars, ri_vars, ci_vars, rt_vars, tl_vars>>
    \/ SI_AfterLoop /\ UNCHANGED <<gu_vars, ri_vars, ci_vars, rt_vars, tl_vars>>

SpecRepair == InitRepair /\ [][NextRepair]_vars

InitRecovery == SI_Idle /\ GU_Init /\ RI_Init /\ CI_Idle /\ RT_Idle /\ TL_Idle

NextRecovery ==
    \/ GU_Iteration /\ UNCHANGED <<si_vars, ri_vars, ci_vars, rt_vars, tl_vars>>
    \/ GU_AfterLoop /\ UNCHANGED <<si_vars, ri_vars, ci_vars, rt_vars, tl_vars>>
    \/ RI_Resolve /\ UNCHANGED <<si_vars, gu_vars, ci_vars, rt_vars, tl_vars>>

SpecRecovery == InitRecovery /\ [][NextRecovery]_vars

InitRoute == SI_Idle /\ GU_Idle /\ RI_Idle /\ CI_Init /\ RT_Init /\ TL_Idle

NextRoute ==
    \/ CI_Classify /\ UNCHANGED <<si_vars, gu_vars, ri_vars, rt_vars, tl_vars>>
    \/ RT_Route /\ UNCHANGED <<si_vars, gu_vars, ri_vars, ci_vars, tl_vars>>

SpecRoute == InitRoute /\ [][NextRoute]_vars

InitDispatch == SI_Idle /\ GU_Idle /\ RI_Idle /\ CI_Stubbed /\ RT_AtDispatch /\ TL_Idle

NextDispatch == RT_Route /\ UNCHANGED <<si_vars, gu_vars, ri_vars, ci_vars, tl_vars>>

SpecDispatch == InitDispatch /\ [][NextDispatch]_vars

InitTools == SI_Idle /\ GU_Idle /\ RI_Idle /\ CI_Idle /\ RT_Idle /\ TL_Init

NextTools ==
    \/ TL_FirstCall /\ UNCHANGED <<si_vars, gu_vars, ri_vars, ci_vars, rt_vars>>
    \/ TL_ToolCall /\ UNCHANGED <<si_vars, gu_vars, ri_vars, ci_vars, rt_vars>>
    \/ TL_FinalCall /\ UNCHANGED <<si_vars, gu_vars, ri_vars, ci_vars, rt_vars>>

SpecTools == InitTools /\ [][NextTools]_vars

(* Any one of the three entry points is called.                            *)
InitCore == InitRepair \/ InitRecovery \/ InitRoute

NextCore == NextRepair \/ NextRecovery \/ NextRoute

SpecCore == InitCore /\ [][NextCore]_vars

-----------------------------------------------------------------------------
(* Properties of the repair loop, checked under SpecRepair.                *)

SI_Done == si_pc \in {"returned", "raised"}

SI_InitialLen == Len(SI_InitialMessages(""))

(* The response of a performed attempt has content that does not decode,   *)
(* or decodes to a value the task schema does not accept.                  *)
SI_FailsDecodeOrValidation(resp) ==
    /\ BackendCall(resp).kind # "raise"
    /\ resp.kind = "Content"
    /\ \/ JsonLoads(resp.content).ty = "JSONDecodeError"
       \/ Construct("TaskResult", TaskResult, JsonLoads(resp.content)).kind # "return"

(* The response of a performed attempt raised one of the two errors the    *)
(* except clause names.                                                    *)
SI_CaughtFailure(resp) ==
    /\ BackendCall(resp).kind # "raise"
    /\ resp.kind = "Content"
    /\ \/ JsonLoads(resp.content).ty = "JSONDecodeError"
       \/ Construct("TaskResult", TaskResult, JsonLoads(resp.content)).cls = "ValidationError"

(* C1: with max_retries = n >= 1, when every attempt's response fails      *)
(* decoding or schema validation and none is a transport failure, a        *)
(* finished invocation has made exactly n backend calls and ended with the *)
(* exhaustion error.                                                       *)
C1_ExactlyNCallsThenExhausted ==
    ( /\ SI_Done
      /\ si_max_retries >= 1
      /\ \A j \in 1..Len(si_log) : SI_FailsDecodeOrValidation(si_log[j].response) )
    => ( /\ Len(si_log) = si_max_retries
         /\ si_out = SI_Exhausted )

(* The part of C1 the code does keep: when every response raises the       *)
(* decode error or the validation error, exactly n calls are made.         *)
C1_CaughtFailuresExhaust ==
    ( /\ SI_Done
      /\ si_max_retries >= 1
      /\ \A j \in 1..Len(si_log) : SI_CaughtFailure(si_log[j].response) )
    => ( /\ Len(si_log) = si_max_retries
         /\ si_out = SI_Exhausted )

C1_CaughtFailuresWitness ==
    /\ si_out = SI_Exhausted
    /\ si_max_retries = 3
    /\ Len(si_log) = 3
    /\ \A j \in 1..Len(si_log) : SI_CaughtFailure(si_log[j].response)

(* C2 as stated: every failed attempt, the last one included, has grown    *)
(* the conversation by 2 turns, so at exhaustion it holds the initial      *)
(* turns and 2 turns per backend call made.                                *)
C2_TwoTurnsPerFailedAttempt ==
    si_out = SI_Exhausted => Len(si_messages) = SI_InitialLen + 2 * Len(si_log)

(* C2 amended: a failed attempt grows the conversation by exactly 2 turns  *)
(* (the raw assistant output, then a corrective user turn) when another    *)
(* attempt follows it, and by none when it is the last one. The j-th       *)
(* backend call is sent the initial turns and 2 turns for each of the j-1  *)
(* attempts before it, and at exhaustion the conversation has grown by     *)
(* 2 * (max_retries - 1) turns.                                            *)
C2_TwoTurnsPerRetriedAttempt ==
    /\ Len(si_messages) = SI_InitialLen + 2 * si_attempt
    /\ \A j \in 1..Len(si_log) :
         Len(si_log[j].messages) = SI_InitialLen + 2 * (j - 1)
    /\ \A j \in 1..si_attempt :
         /\ si_messages[SI_InitialLen + 2 * j - 1]
              = Turn("assistant", si_log[j].response.content)
         /\ si_messages[SI_InitialLen + 2 * j].role = "user"
         /\ SI_CaughtFailure(si_log[j].response)
    /\ si_out = SI_Exhausted =>
         /\ Len(si_log) = si_max_retries
         /\ Len(si_messages) = SI_InitialLen + 2 * (si_max_retries - 1)

C2_Witness ==
    /\ si_out = SI_Exhausted
    /\ si_max_retries = 3
    /\ Len(si_log) = 3
    /\ Len(si_messages) = SI_InitialLen + 4

(* C3: a returned invocation returns the validated value of the last       *)
(* attempt made, attempt k; no earlier attempt decoded and validated; k+1  *)
(* backend calls were made; the conversation is the one sent in that call; *)
(* and nothing more happens.                                               *)
C3_ReturnsFirstValid ==
    si_pc = "returned" =>
        LET calls == Len(si_log)
            last == si_log[calls]
        IN  /\ calls = si_attempt + 1
            /\ calls <= si_max_retries
            /\ si_out = Construct("TaskResult", TaskResult, JsonLoads(last.response.content))
            /\ si_out.kind = "return"
            /\ \A j \in 1..(calls - 1) : SI_FailsDecodeOrValidation(si_log[j].response)
            /\ si_messages = last.messages
            /\ ~ENABLED NextRepair

C3_Witness ==
    /\ si_pc = "returned"
    /\ Len(si_log) = 3
    /\ si_log[3].response.content = TaskQuoted
    /\ si_out.fields = {Field("task", "str", "x"), Field("completed", "bool", "true"),
                        Field("priority", "int", "3")}

-----------------------------------------------------------------------------
(* Properties of the retry policy and the fallbacks, checked under         *)
(* SpecRecovery.                                                           *)

GU_Done == gu_pc \in {"returned", "raised"}

RI_Done == ri_pc \in {"returned", "raised"}

ClientError(resp) == resp.kind = "Status" /\ resp.status \in 400..499

ExpectedDelays == <<1, 2, 4, 8, 16, 32>>

(* C4 as stated: for max_retries >= 2, a 4xx answer to the first backend   *)
(* call ends the invocation at once: the trace holds that one call, no     *)
(* sleep and no second call.                                               *)
C4_FatalAbortsAtOnce ==
    ( /\ Len(gu_trace) >= 1
      /\ ClientError(gu_trace[1].response)
      /\ gu_max_retries >= 2 )
    => ( /\ Len(gu_trace) = 1
         /\ gu_pc = "raised" )

(* C4 amended: a 4xx answer is caught like any other request failure.      *)
(* After it on the first attempt, with max_retries >= 2 the invocation     *)
(* sleeps 1 second and goes on to a second backend call; it ends at once,  *)
(* with the exhaustion error and no sleep, only when max_retries = 1.      *)
C4_ClientErrorIsRetried ==
    ( /\ Len(gu_trace) >= 1
      /\ ClientError(gu_trace[1].response) )
    => IF gu_max_retries >= 2
       THEN /\ Len(gu_trace) >= 2
            /\ gu_trace[2].ev = "sleep"
            /\ gu_trace[2].wait = 1
            /\ Len(gu_trace) = 2 => gu_pc = "loop" /\ gu_attempt = 1 /\ ENABLED GU_Iteration
            /\ Len(gu_trace) >= 3 => gu_trace[3].ev = "post" /\ gu_trace[3].attempt = 1
       ELSE /\ Len(gu_trace) = 1
            /\ gu_pc = "raised"
            /\ gu_out = GU_Exhausted(Raise("HTTPError", "error status"))

C4_Witness ==
    /\ Len(gu_trace) >= 3
    /\ ClientError(gu_trace[1].response)
    /\ gu_trace[2].ev = "sleep"
    /\ gu_trace[3].ev = "post"

(* C5: every sleep directly follows the failed backend call of an attempt  *)
(* i < max_retries - 1, lasts 2^i, and is directly followed by the call of *)
(* attempt i+1; every call of an attempt i > 0 directly follows such a     *)
(* sleep; a finished invocation ends with a backend call, never a sleep.   *)
C5_BackoffDelays ==
    /\ \A p \in 1..Len(gu_trace) :
         gu_trace[p].ev = "sleep" =>
            /\ p > 1
            /\ gu_trace[p - 1].ev = "post"
            /\ gu_trace[p - 1].attempt = gu_trace[p].attempt
            /\ GU_TryBlock(gu_trace[p - 1].response).kind = "raise"
            /\ gu_trace[p].attempt < gu_max_retries - 1
            /\ gu_trace[p].wait = ExpectedDelays[gu_trace[p].attempt + 1]
            /\ IF p < Len(gu_trace)
               THEN /\ gu_trace[p + 1].ev = "post"
                    /\ gu_trace[p + 1].attempt = gu_trace[p].attempt + 1
               ELSE /\ gu_pc = "loop"
                    /\ gu_attempt = gu_trace[p].attempt + 1
    /\ \A p \in 1..Len(gu_trace) :
         (gu_trace[p].ev = "post" /\ gu_trace[p].attempt > 0) =>
            /\ p > 1
            /\ gu_trace[p - 1].ev = "sleep"
            /\ gu_trace[p - 1].attempt = gu_trace[p].attempt - 1
    /\ (GU_Done /\ gu_trace # <<>>) => gu_trace[Len(gu_trace)].ev = "post"

C5_Witness ==
    /\ GU_Done
    /\ Len(gu_trace) = 7
    /\ gu_trace[2].wait = 1
    /\ gu_trace[4].wait = 2
    /\ gu_trace[6].wait = 4
    /\ gu_trace[7].ev = "post"
    /\ gu_trace[7].attempt = 3

(* C6 as stated: the tiers tried are 1, then 2, then 3, so whichever tier  *)
(* gave the result, every tier before it was tried first.                  *)
C6_TiersInDeclaredOrder ==
    RI_Done => ri_tiers \in {<<>>, <<1>>, <<1, 2>>, <<1, 2, 3>>}

(* C6 amended: tier 1 is tried when the primary path fails with a          *)
(* KeyError, TypeError or ValueError, and tier 2 gives the result only     *)
(* after tier 1 was tried and failed. Tier 3 does not follow tier 2: it is *)
(* chosen by the kind of the primary failure (any other exception, here    *)
(* the exhaustion of the retries) and gives the result with neither tier 1 *)
(* nor tier 2 tried. No tier is tried after the first one that succeeds.   *)
C6_TiersByFailureKind ==
    RI_Done =>
        /\ ri_tiers \in {<<>>, <<1>>, <<1, 2>>, <<3>>}
        /\ ri_tiers = <<>> <=>
             (gu_pc = "returned" /\ GetField(gu_out.fields, "age").ty = "int")
        /\ ri_tiers = <<1>> <=>
             (gu_pc = "returned" /\ GetField(gu_out.fields, "age").ty = "null")
        /\ ri_tiers = <<1>> => ri_out = RI_Tier1(gu_out) /\ ri_out.kind = "return"
        /\ ri_tiers = <<1, 2>> <=>
             (gu_pc = "raised" /\ gu_out.cls \in {"KeyError", "TypeError"})
        /\ ri_tiers = <<1, 2>> => ri_out = RI_Tier2 /\ RI_Tier1(gu_out).kind = "raise"
        /\ ri_tiers = <<3>> <=> (gu_pc = "raised" /\ gu_out.cls = "Exception")
        /\ ri_tiers = <<3>> => ri_out = RI_Tier3

C6_Witness ==
    /\ ri_pc = "returned"
    /\ ri_tiers = <<1, 2>>
    /\ ri_out = RI_Tier2
    /\ gu_out.cls = "TypeError"

(* C7: resilient_intelligence never ends by raising; whatever              *)
(* get_user_info_with_retry returned or raised, its handling is enabled    *)
(* and ends with a returned string.                                        *)
C7_AlwaysReturnsString ==
    /\ ri_pc # "raised"
    /\ ri_pc = "returned" => (ri_out.kind = "return" /\ ri_out.cls = "str")
    /\ ri_pc = "primary" => ENABLED NextRecovery
    /\ (ri_pc = "primary" /\ GU_Done) => ENABLED RI_Resolve

C7_Witness ==
    /\ ri_pc = "returned"
    /\ gu_pc = "raised"
    /\ gu_out.cls = "KeyError"
    /\ ri_out = RI_Tier2

-----------------------------------------------------------------------------
(* Properties of the classifier and the router, checked under SpecRoute    *)
(* and, for the dispatch step alone, under SpecDispatch.                   *)

CI_Done == ci_pc \in {"returned", "raised"}

RT_Done == rt_pc \in {"returned", "raised"}

(* The response has content that does not decode, or decodes to a value    *)
(* the intent schema does not accept.                                      *)
CI_FailsDecodeOrValidation(resp) ==
    /\ BackendCall(resp).kind # "raise"
    /\ resp.kind = "Content"
    /\ \/ JsonLoads(resp.content).ty = "JSONDecodeError"
       \/ Construct("IntentClassification", IntentClassification,
                    JsonLoads(resp.content)).kind # "return"

(* C8: once route_based_on_intent has dispatched on a classification,      *)
(* whatever its confidence and reasoning, exactly the handler of its       *)
(* intent was invoked, once: answer_question for question, process_request *)
(* for request, handle_complaint for complaint; and the classification     *)
(* returned is the one classify_intent made from the backend response.     *)
C8_DispatchByIntentAlone ==
    /\ (rt_pc = "classify" \/ ci_pc = "raised") => rt_invoked = <<>>
    /\ (RT_Done /\ ci_pc = "returned") =>
         LET intent == FieldValue(ci_out.fields, "intent")
         IN  /\ intent \in Intents
             /\ intent = "question" => rt_invoked = <<"answer_question">>
             /\ intent = "request" =>
                  /\ rt_invoked = <<"process_request">>
                  /\ rt_result = Str("Processing your request: " \o ci_input)
             /\ intent = "complaint" =>
                  /\ rt_invoked = <<"handle_complaint">>
                  /\ rt_result = Str("I understand your concern about: " \o ci_input
                                     \o ". Let me escalate this.")
    /\ rt_pc = "returned" =>
         /\ rt_classification = ci_out
         /\ rt_classification
              = Construct("IntentClassification", IntentClassification,
                          JsonLoads(ci_log[1].response.content))
         /\ rt_classification.kind = "return"

C8_Witness ==
    /\ rt_pc = "returned"
    /\ FieldValue(rt_classification.fields, "intent") = "question"
    /\ FieldValue(rt_classification.fields, "confidence") = "1.5"
    /\ FieldValue(rt_classification.fields, "reasoning") = "none"
    /\ rt_invoked = <<"answer_question">>

C10_ClassifyIsRepairLoop ==
    (ci_pc = "raised" /\ CI_FailsDecodeOrValidation(ci_log[1].response)) =>
        /\ Len(ci_log) >= 2
        /\ ci_out = SI_Exhausted

(* C10 amended: classify_intent is a single attempt. It makes exactly one  *)
(* backend call, with the [system, user] conversation, appends no turn and *)
(* calls no second time. It returns a classification iff that one response *)
(* decodes and validates; on a decode or validation failure it ends at     *)
(* once with that failure's own error, not an exhaustion error.            *)
C10_ClassifySingleAttempt ==
    CI_Done =>
        LET resp == ci_log[1].response
        IN  /\ Len(ci_log) = 1
            /\ ci_log[1].messages
                 = << Turn("system", CI_SystemPrompt), Turn("user", ci_input) >>
            /\ ~ENABLED CI_Classify
            /\ ci_pc = "returned" <=>
                 /\ resp.kind = "Content"
                 /\ \E t \in IntentTuples : resp.content = IntentText(t) /\ t[1] \in Intents
            /\ ci_pc = "returned" => ci_out.cls = "IntentClassification"
            /\ CI_FailsDecodeOrValidation(resp) =>
                 /\ ci_pc = "raised"
                 /\ ci_out.cls \in {"JSONDecodeError", "ValidationError", "TypeError"}
                 /\ resp.content = Truncated => ci_out.cls = "JSONDecodeError"
                 /\ resp.content \in IntentTexts \cup {TaskOnly} =>
                      ci_out.cls = "ValidationError"

C10_Witness ==
    /\ ci_pc = "raised"
    /\ Len(ci_log) = 1
    /\ ci_log[1].response.content \in IntentTexts
    /\ ci_out.cls = "ValidationError"

-----------------------------------------------------------------------------
(* The number a confidence token stands for, in hundredths.                *)

Hundredths(v) ==
    CASE v = "0" -> 0
      [] v = "0.5" -> 50
      [] v = "0.95" -> 95
      [] v = "1" -> 100
      [] v = "1.5" -> 150
      [] v = "3" -> 300
      [] v = "30" -> 3000
      [] v = "-0.2" -> 0 - 20
      [] OTHER -> 0 - 1

InUnitInterval(v) == Hundredths(v) >= 0 /\ Hundredths(v) <= 100

(* C11: every classification classify_intent returns, and so every one     *)
(* route_based_on_intent dispatches on and returns, has a confidence       *)
(* between 0 and 1.                                                        *)
C11_ConfidenceInUnitInterval ==
    /\ ci_pc = "returned" => InUnitInterval(FieldValue(ci_out.fields, "confidence"))
    /\ rt_pc = "returned" =>
         InUnitInterval(FieldValue(rt_classification.fields, "confidence"))

-----------------------------------------------------------------------------
(* What reaches the caller of each entry point, checked under SpecCore.    *)

(* A returned object of class cls with every declared field, each of its   *)
(* declared type (None allowed where the field is optional).               *)
Conforms(cls, schema, out) ==
    /\ out.kind = "return"
    /\ out.cls = cls
    /\ \A i \in 1..Len(schema) :
         \E f \in out.fields :
            /\ f.n = schema[i].n
            /\ \/ f.ty = (IF schema[i].ty = "literal" THEN "str" ELSE schema[i].ty)
               \/ ~schema[i].required /\ f.ty = "null"

TransportErrors == {"ConnectionError", "Timeout", "HTTPError", "RequestsJSONDecodeError"}

DecodeValidationErrors == {"JSONDecodeError", "ValidationError"}

(* The errors of a reply that has no message, or whose content decodes to  *)
(* something other than an object.                                         *)
ShapeErrors == {"KeyError", "TypeError"}

(* C12: whatever the backend does, the caller of structured_intelligence,  *)
(* of classify_intent / route_based_on_intent and of                       *)
(* resilient_intelligence receives a schema-valid result, a fallback       *)
(* result or the exhaustion error, never a raw transport, decode or        *)
(* validation exception.                                                   *)
C12_ValidFallbackOrExhaustion ==
    /\ si_pc = "returned" => Conforms("TaskResult", TaskResult, si_out)
    /\ si_pc = "raised" => si_out = SI_Exhausted
    /\ ci_pc = "returned" => Conforms("IntentClassification", IntentClassification, ci_out)
    /\ ci_pc = "raised" => ci_out.cls \notin TransportErrors \cup DecodeValidationErrors
    /\ rt_pc = "raised" => rt_result.cls \notin TransportErrors \cup DecodeValidationErrors
    /\ ri_pc \in {"returned", "raised"} => ri_out.kind = "return"

(* C12, as the code has it: resilient_intelligence alone shields its       *)
(* caller and always returns a string.  structured_intelligence returns a  *)
(* conforming TaskResult or raises: never a raw decode or validation       *)
(* error, but the raw transport error of its last call, the raw KeyError   *)
(* or TypeError of a misshapen reply, or "Unexpected error" when           *)
(* max_retries is 0.  classify_intent and route_based_on_intent return a   *)
(* conforming classification or let every failure through raw.             *)
C12_OnlyFallbackShieldsCaller ==
    /\ ri_pc \in {"returned", "raised"} => ri_out.kind = "return" /\ ri_out.cls = "str"
    /\ si_pc = "returned" => Conforms("TaskResult", TaskResult, si_out)
    /\ si_pc = "raised" =>
         /\ si_out.cls \notin DecodeValidationErrors
         /\ \/ si_out = SI_Exhausted
            \/ si_out = SI_Unexpected /\ si_max_retries = 0
            \/ /\ si_log # <<>>
               /\ si_out = BackendCall(si_log[Len(si_log)].response)
               /\ si_out.cls \in TransportErrors
            \/ /\ si_log # <<>>
               /\ si_out = SI_TryBlock(si_log[Len(si_log)].response)
               /\ si_out.cls \in ShapeErrors
    /\ ci_pc = "returned" => Conforms("IntentClassification", IntentClassification, ci_out)
    /\ ci_pc = "raised" =>
         /\ ci_out.kind = "raise"
         /\ ci_out.cls \in TransportErrors \cup DecodeValidationErrors \cup ShapeErrors
    /\ rt_pc = "raised" =>
         /\ rt_result.kind = "raise"
         /\ rt_result.cls \in TransportErrors \cup DecodeValidationErrors \cup ShapeErrors

(* structured_intelligence repaired one invalid output and then its        *)
(* backend call failed: the connection error reached the caller.           *)
C12_Witness ==
    /\ si_pc = "raised"
    /\ Len(si_log) = 2
    /\ si_out.cls = "ConnectionError"

-----------------------------------------------------------------------------
(* What the repair loop accepts, checked under SpecRepair.                 *)

(* The response reached the try block with content.                        *)
SI_HasContent(resp) == BackendCall(resp).kind # "raise" /\ resp.kind = "Content"

(* A decoded object one of whose declared fields holds a value of another  *)
(* JSON type than the declared one.                                        *)
TypeMismatch(schema, data) ==
    /\ data.ty = "object"
    /\ \E i \in 1..Len(schema) :
         /\ HasField(data.fields, schema[i].n)
         /\ GetField(data.fields, schema[i].n).ty # schema[i].ty
         /\ ~(GetField(data.fields, schema[i].n).ty = "null" /\ ~schema[i].required)

(* Attempt j was treated as a failure to repair: another attempt followed  *)
(* or is due, or it was the last and the invocation ended in exhaustion.   *)
SI_Repaired(j) ==
    \/ j < Len(si_log)
    \/ si_pc = "loop"
    \/ si_out = SI_Exhausted

(* C13: a payload with a field of another runtime type than the task       *)
(* schema declares (priority "3", completed "true" or 1) is never accepted *)
(* and returned by structured_intelligence; it triggers a repair attempt.  *)
C13_NoImplicitCoercion ==
    \A j \in 1..Len(si_log) :
       ( /\ SI_HasContent(si_log[j].response)
         /\ TypeMismatch(TaskResult, JsonLoads(si_log[j].response.content)) )
       => SI_Repaired(j)

(* C14: content that decodes to a value that is not an object is treated   *)
(* like a validation failure: the assistant output and a corrective user   *)
(* turn are appended and another attempt follows, or the invocation ends   *)
(* with the exhaustion error on the last attempt.                          *)
C14_NonObjectIsRepaired ==
    \A j \in 1..Len(si_log) :
       ( /\ SI_HasContent(si_log[j].response)
         /\ JsonLoads(si_log[j].response.content).ty \notin {"object", "JSONDecodeError"} )
       => /\ SI_Repaired(j)
          /\ j < Len(si_log) =>
               Len(si_log[j + 1].messages) = Len(si_log[j].messages) + 2

(* C15: a transport failure of the backend call at attempt k ends          *)
(* structured_intelligence at once: it is the last of exactly k + 1 calls, *)
(* its error is what the invocation raises, and the conversation is the    *)
(* one that call was sent, with no turn appended.                          *)
C15_TransportFailureEndsAtOnce ==
    \A j \in 1..Len(si_log) :
       BackendCall(si_log[j].response).kind = "raise"
       => /\ j = Len(si_log)
          /\ si_attempt + 1 = j
          /\ si_pc = "raised"
          /\ si_out = BackendCall(si_log[j].response)
          /\ si_messages = si_log[j].messages
          /\ ~ENABLED NextRepair

(* Two outputs were repaired and the third backend call failed.            *)
C15_Witness ==
    /\ Len(si_log) = 3
    /\ BackendCall(si_log[3].response).kind = "raise"
    /\ si_pc = "raised"
    /\ Len(si_messages) = SI_InitialLen + 4

IsPrefix(s, t) == Len(s) <= Len(t) /\ SubSeq(t, 1, Len(s)) = s

(* C16: the conversation of one invocation only grows at its end and in    *)
(* attempt order: what an earlier call was sent is a prefix of what a      *)
(* later call is sent and of the current conversation, the turns after the *)
(* initial system and user turns alternate assistant, user, the j-th       *)
(* appended assistant turn is the raw output of attempt j, and every call  *)
(* is sent a conversation that ends with a user turn.                      *)
C16_AppendOnlyInAttemptOrder ==
    /\ \A j \in 1..Len(si_log) :
         /\ IsPrefix(si_log[j].messages, si_messages)
         /\ \A i \in 1..j : IsPrefix(si_log[i].messages, si_log[j].messages)
         /\ Len(si_log[j].messages) = SI_InitialLen + 2 * (j - 1)
         /\ si_log[j].messages[Len(si_log[j].messages)].role = "user"
         /\ SI_InitialLen + 2 * j - 1 <= Len(si_messages)
              => si_messages[SI_InitialLen + 2 * j - 1] =
                   Turn("assistant", si_log[j].response.content)
    /\ si_pc # "idle" =>
         /\ IsPrefix(<<Turn("system", SI_SystemPrompt)>>, si_messages)
         /\ Len(si_messages) >= SI_InitialLen
         /\ si_messages[SI_InitialLen].role = "user"
         /\ \A k \in (SI_InitialLen + 1)..Len(si_messages) :
              si_messages[k].role =
                 IF (k - SI_InitialLen) % 2 = 1 THEN "assistant" ELSE "user"

(* Three calls were made and the two failed outputs, which differ, are in  *)
(* the conversation in the order they were given.                          *)
C16_Witness ==
    /\ Len(si_log) = 3
    /\ Len(si_messages) = SI_InitialLen + 4
    /\ si_log[1].response.content # si_log[2].response.content
    /\ si_messages[SI_InitialLen + 1].content = si_log[1].response.content
    /\ si_messages[SI_InitialLen + 3].content = si_log[2].response.content

(* C17: the exhaustion error of structured_intelligence carries the decode *)
(* error or the violation list of the final attempt: that error is         *)
(* attached to it as its cause, or its message quotes it.                  *)
C17_ExhaustionCarriesLastError ==
    si_out = SI_Exhausted =>
       \/ si_chain.cause = SI_TryBlock(si_log[Len(si_log)].response)
       \/ si_out.msg =
            "Failed to get valid structured output after max_retries attempts: "
            \o SI_TryBlock(si_log[Len(si_log)].response).msg

(* What the code does attach: the error being handled when the exhaustion  *)
(* error is raised is that of the final attempt, as implicit __context__.  *)
C17_ContextIsFinalError ==
    si_out = SI_Exhausted =>
       /\ si_chain.cause = NoOutcome
       /\ si_chain.context = SI_TryBlock(si_log[Len(si_log)].response)
       /\ Len(si_log) = si_max_retries

-----------------------------------------------------------------------------
(* The two bounded loops, checked under SpecCore.                          *)

(* C19: whatever max_retries is, the attempt counter of both loops stays   *)
(* strictly below it and the statement after the loop, which raises the    *)
(* 'Unexpected error' exception, is never reached; with max_retries = 0    *)
(* the outcome is the exhaustion error.                                    *)
C19_AfterLoopNeverReached ==
    /\ si_out # SI_Unexpected
    /\ gu_out # GU_Unexpected
    /\ SI_Done => si_attempt < si_max_retries
    /\ GU_Done => gu_attempt < gu_max_retries

-----------------------------------------------------------------------------
(* The result of resilient_intelligence, checked under SpecRecovery.       *)

AgeSentence(fields) == Str("User is " \o FieldValue(fields, "age") \o " years old")

Summary(fields) ==
    Str("User " \o FieldValue(fields, "name") \o " has email " \o FieldValue(fields, "email"))

(* C20: the result of resilient_intelligence is determined by what         *)
(* get_user_info_with_retry did: the age sentence of a validated record    *)
(* with an age, the name and email summary of a validated record whose age *)
(* is None, the service text when the attempts were exhausted, and the     *)
(* 'unable to extract' text only when get_user_info_with_retry raised a    *)
(* KeyError or TypeError itself, so that no record was bound.              *)
C20_ResultIsFunctionOfPrimary ==
    RI_Done =>
        /\ gu_pc = "returned" => Conforms("UserInfo", UserInfo, gu_out)
        /\ (gu_pc = "returned" /\ GetField(gu_out.fields, "age").ty = "int")
             => ri_out = AgeSentence(gu_out.fields)
        /\ (gu_pc = "returned" /\ GetField(gu_out.fields, "age").ty = "null")
             => ri_out = Summary(gu_out.fields)
        /\ gu_pc = "raised" =>
             /\ gu_out.cls \in {"Exception", "KeyError", "TypeError"}
             /\ gu_out.cls = "Exception" <=> ri_out = RI_Tier3
             /\ gu_out.cls = "Exception" =>
                  /\ Len(gu_trace) > 0
                  /\ gu_out = GU_Exhausted(GU_TryBlock(gu_trace[Len(gu_trace)].response))
             /\ gu_out.cls \in {"KeyError", "TypeError"} <=> ri_out = RI_Tier2
        /\ ri_out \in {RI_Tier2, RI_Tier3} => gu_pc = "raised"

(* A record without an age was extracted on the second attempt and the     *)
(* summary was built from it.                                              *)
C20_Witness ==
    /\ ri_pc = "returned"
    /\ gu_pc = "returned"
    /\ gu_attempt = 1
    /\ GetField(gu_out.fields, "age").ty = "null"
    /\ ri_out = Str("User John Smith has email john@example.com")

-----------------------------------------------------------------------------
(* The tool round, checked under SpecTools.                                *)

(* C18: a tool call that names an unregistered tool is fatal: call_function *)
(* raises the unknown-tool error and intelligence_with_tools ends with it, *)
(* no later tool call of the same assistant turn is executed, no tool turn *)
(* is appended for it, and the follow-up backend call is not made, so that *)
(* exactly one backend call was made.                                      *)
C18_UnknownToolIsFatal ==
    /\ Len(tl_invoked) <= Len(tl_tool_calls)
    /\ \A i \in 1..Len(tl_invoked) :
         /\ tl_invoked[i] = tl_tool_calls[i].name
         /\ tl_invoked[i] # "get_weather" =>
              /\ i = Len(tl_invoked)
              /\ tl_pc = "raised"
              /\ tl_out = Raise("ValueError", "Unknown function: " \o tl_invoked[i])
              /\ Len(tl_log) = 1
              /\ Len(tl_messages) = i + 1
              /\ ~ENABLED NextTools

(* The assistant asked for three tools; the first ran, the second was      *)
(* unknown, the third was never called.                                    *)
C18_Witness ==
    /\ Len(tl_tool_calls) = 3
    /\ tl_invoked = <<"get_weather", "get_time">>
    /\ tl_tool_calls[3].name = "get_weather"
    /\ tl_pc = "raised"

-----------------------------------------------------------------------------
(* The conversation of the retry loop, checked under SpecRecovery.         *)

(* C21: get_user_info_with_retry appends no turn, whatever the failure:    *)
(* its messages stay the initial system and user turns, and every backend  *)
(* call of the at most max_retries calls of one invocation is sent those   *)
(* same two turns and the same options.                                    *)
C21_ConversationUnchanged ==
    /\ gu_pc # "idle" => \E p \in GU_Prompts : gu_messages = GU_InitialMessages(p)
    /\ \A p \in 1..Len(gu_trace) :
         gu_trace[p].ev = "post" =>
            /\ gu_trace[p].messages = gu_messages
            /\ gu_trace[p].options = GU_Options
            /\ gu_trace[p].attempt < gu_max_retries
            /\ \A q \in 1..p :
                 gu_trace[q].ev = "post" =>
                    /\ gu_trace[q].messages = gu_trace[p].messages
                    /\ gu_trace[q].options = gu_trace[p].options

(* Four calls failed, one by connection, one by timeout, one by decoding   *)
(* and one by validation, and the attempts were exhausted.                 *)
C21_Witness ==
    /\ gu_pc = "raised"
    /\ Len(gu_trace) = 7
    /\ gu_trace[1].response.kind = "ConnectionError"
    /\ gu_trace[3].response.kind = "Timeout"
    /\ gu_trace[5].response.content = Truncated
    /\ gu_trace[7].response.content = UserNameOnly
    /\ gu_trace[7].messages = GU_InitialMessages("My name is John Smith and my email is john@example.com")

====
